---- MODULE Spec2Model ----
(***************************************************************************)
(* State-machine model of alb::freelist_base (src/alb/freelist.hpp): a     *)
(* bounded pool of recycled fixed-size blocks in front of a delegate       *)
(* allocator.  Every access to the pool (_root.push/_root.pop) and every   *)
(* call into the delegate is one atomic step of the calling thread, so     *)
(* that the shared configuration (Shared = true) interleaves threads at    *)
(* exactly the points where the code touches shared state.                 *)
(*                                                                         *)
(* The second half models ALB::AllocatorWithStats                          *)
(* (src/include/ALBAllocatorWithStats.h): a decorator that counts the      *)
(* calls and bytes its flag mask selects and keeps a list of               *)
(* per-allocation records.  It has no synchronization and is used by one   *)
(* caller: each of its member functions is one step.                       *)
(***************************************************************************)
EXTENDS Integers, Sequences, FiniteSets, TLC

\* ------------------------------------------------------------- bounds
MaxSize == 2
MaxPool == 2
MaxBatch == 3
HeapSize == 6
MaxHeld == 1
NumThreads == 2
WordBits == 4
MaxRequest == 2
MaxBlocks == 3
MaxCalls == 4

\* ---------------------------------------------------------- constants
NULL == 0

VARIABLES
  Shared,                           \* template parameter Shared
  supports_truncated_deallocation,  \* Allocator::supports_truncated_deallocation
  debug,                            \* BOOST_ASSERT active (NDEBUG not defined)
  PoolSize,                         \* template parameter PoolSize
  NumberOfBatchAllocations,         \* template parameter NumberOfBatchAllocations
  lowerBound,                       \* _lowerBound.value()
  upperBound,                       \* _upperBound.value()
  root,                             \* _root: the pool, top of the stack first
  mem,                              \* addresses the delegate has handed out
  pc,                               \* each thread's position
  loc,                              \* each thread's locals and its call's log
  held,                             \* the blocks each caller holds
  rt,                               \* allocate/deallocate/allocate tracker
  destroyed,                        \* ~freelist_base has been entered
  aborted,                          \* a BOOST_ASSERT failed
  constructed,                      \* an AllocatorWithStats instance exists
  Flags,                            \* template parameter Flags, as a set of options
  counters,                         \* _numOwns .. _bytesHighTide
  stats_root,                       \* AllocatorWithStats::_root
  info,                             \* the AllocationInfo in front of each block
  blocks,                           \* the blocks the caller of the decorator holds
  trace                             \* the calls made so far, as the caller saw them

config == <<Shared, supports_truncated_deallocation, debug, PoolSize,
            NumberOfBatchAllocations, lowerBound, upperBound>>
stats == <<constructed, Flags, counters, stats_root, info, blocks, trace>>
freelist == <<config, root, mem, pc, loc, held, rt, destroyed, aborted>>
vars == <<Shared, supports_truncated_deallocation, debug, PoolSize,
          NumberOfBatchAllocations, lowerBound, upperBound,
          root, mem, pc, loc, held, rt, destroyed, aborted, stats>>

Threads == 1..NumThreads
Addr == 1..HeapSize
Sizes == 0..(MaxSize + 1)

\* ------------------------------------------------------------- size_t
\* size_t has WordBits bits
SizeModulus == 2 ^ WordBits

\* the value of x as a size_t
Wrap(x) == x % SizeModulus

\* internal::DynasticUndefined, the value of a runtime bound that was never
\* set: size_t(-1), which allocate compares with -1
DynasticUndefined == SizeModulus - 1

\* ------------------------------------------------------------- blocks
EmptyBlock == [ptr |-> NULL, length |-> 0]

MkBlock(p, len) == [ptr |-> p, length |-> len]

\* block::operator bool
BlockBool(b) == b.length # 0

\* the addresses a block covers
Region(b) == IF b.ptr = NULL THEN {} ELSE b.ptr..(b.ptr + b.length - 1)

\* ------------------------------------------------------ the slot pool
StackPush(s, p) ==
  IF Len(s) < PoolSize
    THEN [ok |-> TRUE, s |-> <<p>> \o s]
    ELSE [ok |-> FALSE, s |-> s]

StackPop(s) ==
  IF s = <<>>
    THEN [ok |-> FALSE, val |-> NULL, s |-> s]
    ELSE [ok |-> TRUE, val |-> Head(s), s |-> Tail(s)]

\* ------------------------------------------------------- the delegate
\* the places where the delegate's heap has s free addresses in a row
FreeAt(s) == { x \in Addr : /\ s > 0
                            /\ x + s - 1 <= HeapSize
                            /\ (x..(x + s - 1)) \cap mem = {} }

\* _allocator.allocate(s): the empty block (always possible: the delegate may
\* fail, and does for s = 0), or a block of length s at the first free place.
DelegateAllocate(s) ==
  {EmptyBlock} \cup
  { MkBlock(a, s) : a \in { x \in FreeAt(s) : \A y \in FreeAt(s) : x <= y } }

\* _allocator.deallocate(b): the memory of b is the delegate's again
DelegateDeallocate(b) == mem \ Region(b)

\* ------------------------------------------------------- the call log
LogPop(r) == [op |-> "pop", ok |-> r.ok, ptr |-> r.val, n |-> 0]
LogPush(p, r) == [op |-> "push", ok |-> r.ok, ptr |-> p, n |-> 0]
LogAllocate(s, b) == [op |-> "allocate", ok |-> BlockBool(b), ptr |-> b.ptr, n |-> s]
LogDeallocate(b) == [op |-> "deallocate", ok |-> TRUE, ptr |-> b.ptr, n |-> b.length]

\* op, n, arg: the call and its arguments; b, batch, i: the locals of the
\* code; log: the pool and delegate calls made so far; root0: the pool as the
\* call found it
NoLocals == [op |-> "none", n |-> 0, arg |-> EmptyBlock, b |-> EmptyBlock,
             batch |-> EmptyBlock, i |-> 0, log |-> <<>>, root0 |-> <<>>]

\* the pool as a call of the single owner finds it (under concurrent calls
\* the pool at entry says nothing about the pool at return)
Snapshot == IF Shared THEN <<>> ELSE root

NoRT == [phase |-> 0, by |-> 0, ptr |-> NULL]

\* the tracker survives a step of the thread it follows, and no other step
Track(t) == IF rt.by = t THEN rt ELSE NoRT

\* ---------------------------------------------------- pure operations
\* mutant of InRange: the upper comparison off by one
InRangeOffByOne(n) == lowerBound <= n /\ n <= upperBound + 1

\* _lowerBound.value() <= n && n <= _upperBound.value()
InRange(n) == lowerBound <= n /\ n <= upperBound

\* owns(b)
Owns(b) == BlockBool(b) /\ lowerBound <= b.length /\ b.length <= upperBound

\* size_t blockSize = _upperBound.value()
blockSize == upperBound

\* mutant of PoppedBlock: a recycled block sized to the request
PoppedBlockOfRequestedSize(freeBlock, n) == MkBlock(freeBlock, n)

\* return {freeBlock, _upperBound.value()}, whatever n was
PoppedBlock(freeBlock, n) == MkBlock(freeBlock, upperBound)

\* mutant of SubBlockPtr: the index is not scaled by the block size
SubBlockPtrUnscaled(batch, i) == batch.ptr + i

\* static_cast<char *>(batchAllocatedBlocks.ptr) + i * blockSize
SubBlockPtr(batch, i) == batch.ptr + i * blockSize

\* mutant of FirstPushedIndex: the loop starts at the caller's sub-block
FirstPushedIndexZero == 0

\* for (size_t i = 1; ...): the first sub-block goes to the caller
FirstPushedIndex == 1

\* return {batchAllocatedBlocks.ptr, blockSize}
BatchResult(batch) == MkBlock(batch.ptr, blockSize)

\* mutant of DrainedBlock: the drained block sized to the lower bound
DrainedBlockOfLowerSize(curBlock) == MkBlock(curBlock, lowerBound)

\* block oldBlock(curBlock, _upperBound.value()) in the destructor
DrainedBlock(curBlock) == MkBlock(curBlock, upperBound)

\* ------------------------------------------- the statistics decorator
\* enum StatsOptions: the options numOwns .. bytesHighTide, each with the
\* counter of its name
Counters ==
  {"numOwns", "numAllocate", "numAllocateOK", "numExpand", "numExpandOK",
   "numReallocate", "numReallocateOK", "numReallocateInPlace",
   "numDeallocate", "numDeallocateAll",
   "bytesAllocated", "bytesDeallocated", "bytesExpanded", "bytesContracted",
   "bytesMoved", "bytesSlack", "bytesHighTide"}

numAll ==
  {"numOwns", "numAllocate", "numAllocateOK", "numExpand", "numExpandOK",
   "numReallocate", "numReallocateOK", "numReallocateInPlace",
   "numDeallocate", "numDeallocateAll"}

bytesAll == Counters \ numAll

callerAll ==
  {"callerSize", "callerFile", "callerFunction", "callerLine", "callerTime"}

all == numAll \cup bytesAll \cup callerAll

\* the masks an instance is built with: the enum's own combinations, each
\* caller option alone, and the masks of the counters that depend on each
\* other
Masks ==
  {{}, numAll, bytesAll, callerAll, all,
   {"numAllocate", "numAllocateOK", "bytesAllocated"},
   {"bytesAllocated", "bytesDeallocated", "bytesHighTide"},
   {"bytesDeallocated", "bytesHighTide"}}
    \cup { {f} : f \in callerAll }

\* static const bool HasPerAllocationState
HasPerAllocationState ==
  Flags \cap {"callerTime", "callerFile", "callerLine"} # {}

has_per_allocation_state == HasPerAllocationState

\* mutant of Up: the counter moves whatever the mask says
UpUnguarded(option, c) == [c EXCEPT ![option] = Wrap(@ + 1)]

\* up(option, value): each call passes the counter of the option's name
Up(option, c) ==
  IF option \in Flags THEN [c EXCEPT ![option] = Wrap(@ + 1)] ELSE c

\* mutant of UpOK: the call counts whether it succeeded or not
UpOKAlways(option, c, ok) ==
  IF option \in Flags THEN [c EXCEPT ![option] = Wrap(@ + 1)] ELSE c

\* upOK(option, value, ok)
UpOK(option, c, ok) ==
  IF option \in Flags /\ ok THEN [c EXCEPT ![option] = Wrap(@ + 1)] ELSE c

\* add(option, value, delta)
Add(option, c, delta) ==
  IF option \in Flags THEN [c EXCEPT ![option] = Wrap(@ + delta)] ELSE c

\* set(option, value, t)
Set(option, value, t) == IF option \in Flags THEN t ELSE value

\* mutant of updateHighTide: the mark follows the current amount down
updateHighTideToCurrent(c) ==
  IF "bytesHighTide" \in Flags
    THEN [c EXCEPT !["bytesHighTide"] =
            Wrap(c["bytesAllocated"] - c["bytesDeallocated"])]
    ELSE c

\* updateHighTide()
updateHighTide(c) ==
  IF "bytesHighTide" \in Flags
    THEN LET currentlyAllocated == Wrap(c["bytesAllocated"] - c["bytesDeallocated"])
         IN IF c["bytesHighTide"] < currentlyAllocated
              THEN [c EXCEPT !["bytesHighTide"] = currentlyAllocated]
              ELSE c
    ELSE c

\* the places the decorator's delegate serves blocks at
Ptrs == 1..MaxBlocks

\* an AllocationInfo nobody has written yet; of its fields the model keeps
\* callerSize and the two links
NoInfo == [callerSize |-> 0, previous |-> NULL, next |-> NULL]

\* allocate, lines 342-358: fill the record in front of the block at p and
\* make it the head of the list
Link(r, inf, p, n) ==
  LET i1 == [inf EXCEPT ![p].callerSize = Set("callerSize", @, n)]
      i2 == IF r # NULL THEN [i1 EXCEPT ![r].previous = p] ELSE i1
      i3 == [i2 EXCEPT ![p].next = r, ![p].previous = NULL]
  IN [root |-> p, info |-> i3]

\* deallocate, lines 372-379: take the record of the block at p out
Unlink(r, inf, p) ==
  LET i1 == IF inf[p].previous # NULL
              THEN [inf EXCEPT ![inf[p].previous].next = inf[p].next]
              ELSE inf
      i2 == IF i1[p].next # NULL
              THEN [i1 EXCEPT ![i1[p].next].previous = i1[p].previous]
              ELSE i1
  IN [root |-> IF p = r THEN i2[p].previous ELSE r, info |-> i2]

\* AllocationInfoIterator: from p along the next links, at most fuel records
RECURSIVE Walk(_, _)
Walk(p, fuel) ==
  IF p = NULL \/ fuel = 0 THEN <<>> ELSE <<p>> \o Walk(info[p].next, fuel - 1)

\* allocations(): the records reached from _root, as the places of their
\* blocks
allocations == Walk(stats_root, MaxBlocks + 1)

\* the places the delegate of the decorator has free
FreePtrs == Ptrs \ { b.ptr : b \in blocks }

\* _allocator.allocate(n): the empty block (always possible, and the only
\* answer to n = 0), or a block of length n at the first free place
StatsDelegateAllocate(n) ==
  {EmptyBlock} \cup
  { MkBlock(p, n) : p \in { x \in FreePtrs : n > 0 /\ \A y \in FreePtrs : x <= y } }

\* _allocator.reallocate(b, n): failure with b as it was; or success: to
\* size 0 with b empty, in place, or at another place
StatsDelegateReallocate(b, n) ==
  {[ok |-> FALSE, b |-> b]} \cup
  (IF n = 0
     THEN {[ok |-> TRUE, b |-> EmptyBlock]}
     ELSE (IF BlockBool(b) THEN {[ok |-> TRUE, b |-> MkBlock(b.ptr, n)]} ELSE {})
            \cup { [ok |-> TRUE, b |-> x] : x \in StatsDelegateAllocate(n) \ {EmptyBlock} })

\* _allocator.expand(b, delta): failure with b as it was, or b grown where
\* it is
StatsDelegateExpand(b, delta) ==
  {[ok |-> FALSE, b |-> b]} \cup
  (IF delta = 0 \/ (BlockBool(b) /\ b.length + delta <= MaxRequest)
     THEN {[ok |-> TRUE, b |-> MkBlock(b.ptr, b.length + delta)]}
     ELSE {})

\* mutant of ReallocateCounters: the new pointer is not compared with the old
ReallocateCountersInPlace(c, originalBlock, b) ==
  LET c1 == Up("numReallocateOK", c)
      delta == b.length - originalBlock.length
      c2 == Up("numReallocateInPlace", c1)
      c3 == IF delta > 0
              THEN Add("bytesExpanded", Add("bytesAllocated", c2, delta), delta)
              ELSE Add("bytesContracted", Add("bytesDeallocated", c2, -delta), -delta)
  IN updateHighTide(c3)

\* reallocate after the delegate succeeded, lines 397-415
ReallocateCounters(c, originalBlock, b) ==
  LET c1 == Up("numReallocateOK", c)
      delta == b.length - originalBlock.length
      c2 == IF b.ptr = originalBlock.ptr
              THEN LET c3 == Up("numReallocateInPlace", c1)
                   IN IF delta > 0
                        THEN Add("bytesExpanded", Add("bytesAllocated", c3, delta), delta)
                        ELSE Add("bytesContracted",
                                 Add("bytesDeallocated", c3, -delta), -delta)
              ELSE Add("bytesDeallocated",
                       Add("bytesMoved", Add("bytesAllocated", c1, b.length),
                           originalBlock.length),
                       originalBlock.length)
  IN updateHighTide(c2)

\* mutant of ReallocateResult: the delegate's answer is not looked at
ReallocateResultUnchecked(c, originalBlock, r) ==
  ReallocateCounters(Up("numReallocate", c), originalBlock, r.b)

\* the counters after reallocate, lines 391-416; r is the delegate's answer
ReallocateResult(c, originalBlock, r) ==
  IF ~r.ok
    THEN Up("numReallocate", c)
    ELSE ReallocateCounters(Up("numReallocate", c), originalBlock, r.b)

\* what the caller saw of the last call
NoCall == [op |-> "none", n |-> 0, before |-> EmptyBlock, after |-> EmptyBlock,
           ok |-> FALSE]

\* calls: how many calls were made; ops: which operations; last: the last
\* call; peak: the largest bytesAllocated - bytesDeallocated the accessors
\* showed after a call; returnedBytes, grantedNonZero: the lengths allocate
\* returned and its non-empty answers to requests of n > 0; order: the
\* places of the blocks the caller holds, newest first
NoTrace == [calls |-> 0, ops |-> {}, last |-> NoCall, peak |-> 0,
            returnedBytes |-> 0, grantedNonZero |-> 0, order |-> <<>>]

Max(a, b) == IF a < b THEN b ELSE a

Traced(op, n, before, after, ok, c, order) ==
  [calls |-> trace.calls + 1,
   ops |-> trace.ops \cup {op},
   last |-> [op |-> op, n |-> n, before |-> before, after |-> after, ok |-> ok],
   peak |-> Max(trace.peak, c["bytesAllocated"] - c["bytesDeallocated"]),
   returnedBytes |-> trace.returnedBytes + (IF op = "allocate" THEN after.length ELSE 0),
   grantedNonZero |-> trace.grantedNonZero +
                        (IF op = "allocate" /\ n > 0 /\ after.length # 0 THEN 1 ELSE 0),
   order |-> order]

\* no decorator exists next to the free list
NoStats ==
  /\ constructed = FALSE
  /\ Flags = {}
  /\ counters = [k \in Counters |-> 0]
  /\ stats_root = NULL
  /\ info = [p \in Ptrs |-> NoInfo]
  /\ blocks = {}
  /\ trace = NoTrace

\* ------------------------------------------------------------ Init
\* the pool, the delegate and the callers of a new free list
InitPool ==
  /\ supports_truncated_deallocation \in BOOLEAN
  /\ debug \in BOOLEAN
  /\ PoolSize \in 1..MaxPool
  /\ NumberOfBatchAllocations \in 1..MaxBatch
  /\ root = <<>>
  /\ mem = {}
  /\ pc = [t \in Threads |-> "idle"]
  /\ loc = [t \in Threads |-> NoLocals]
  /\ held = [t \in Threads |-> {}]
  /\ rt = NoRT
  /\ destroyed = FALSE
  /\ aborted = FALSE
  /\ NoStats

\* freelist_base(minSize, maxSize), or the bounds as template parameters
InitCommon ==
  /\ InitPool
  /\ lowerBound \in 0..MaxSize
  /\ upperBound \in 0..MaxSize

\* freelist_base(): both runtime bounds unset
InitUnset ==
  /\ InitPool
  /\ lowerBound = DynasticUndefined
  /\ upperBound = DynasticUndefined

\* alb::freelist: single owner
Init == Shared = FALSE /\ InitCommon

\* alb::shared_freelist, its bounds fixed before any thread calls
InitShared == Shared = TRUE /\ InitCommon /\ lowerBound = 1

\* alb::freelist with runtime bounds, built by either constructor
InitBounds == Shared = FALSE /\ (InitCommon \/ InitUnset)

\* a bound that was never set
Unset == lowerBound = DynasticUndefined \/ upperBound = DynasticUndefined

\* a call may start: the object is alive; the single-owner configuration
\* has one owner, thread 1
CanEnter(t) ==
  /\ ~aborted /\ ~destroyed
  /\ pc[t] = "idle"
  /\ Shared \/ t = 1

Running(t, at) == ~aborted /\ pc[t] = at

\* --------------------------------------------------------- allocate
AllocateCall(t, n) ==
  /\ CanEnter(t)
  /\ Cardinality(held[t]) < MaxHeld
  /\ loc' = [loc EXCEPT ![t] = [NoLocals EXCEPT !.op = "allocate", !.n = n, !.root0 = Snapshot]]
  /\ pc' = [pc EXCEPT ![t] = IF debug /\ Unset THEN "assert_failed"
                             ELSE IF InRange(n) THEN "pop" ELSE "ret"]
  /\ aborted' = (debug /\ Unset)
  /\ rt' = IF rt.phase = 3 /\ rt.by = t /\ InRange(n)
             THEN [rt EXCEPT !.phase = 4] ELSE NoRT
  /\ UNCHANGED <<stats, config, root, mem, held, destroyed>>

AllocatePop(t) ==
  /\ Running(t, "pop")
  /\ LET r == StackPop(root) IN
       /\ root' = r.s
       /\ IF r.ok
            THEN /\ loc' = [loc EXCEPT ![t].b = PoppedBlock(r.val, loc[t].n),
                                       ![t].log = Append(@, LogPop(r))]
                 /\ pc' = [pc EXCEPT ![t] = "ret"]
            ELSE /\ loc' = [loc EXCEPT ![t].log = Append(@, LogPop(r))]
                 /\ pc' = [pc EXCEPT ![t] =
                       IF supports_truncated_deallocation THEN "batch" ELSE "loop"]
  /\ rt' = Track(t)
  /\ UNCHANGED <<stats, config, mem, held, destroyed, aborted>>

AllocateBatch(t) ==
  /\ Running(t, "batch")
  /\ \E blk \in DelegateAllocate(blockSize * NumberOfBatchAllocations) :
       /\ mem' = mem \cup Region(blk)
       /\ loc' = [loc EXCEPT
             ![t].batch = blk,
             ![t].i = FirstPushedIndex,
             ![t].log = Append(@, LogAllocate(blockSize * NumberOfBatchAllocations, blk))]
       /\ pc' = [pc EXCEPT ![t] = IF BlockBool(blk) THEN "batch_push" ELSE "single"]
  /\ rt' = Track(t)
  /\ UNCHANGED <<stats, config, root, held, destroyed, aborted>>

BatchPush(t) ==
  /\ Running(t, "batch_push")
  /\ IF loc[t].i < NumberOfBatchAllocations
       THEN LET p == SubBlockPtr(loc[t].batch, loc[t].i)
                r == StackPush(root, p)
            IN /\ root' = r.s
               /\ IF r.ok
                    THEN /\ loc' = [loc EXCEPT ![t].i = @ + 1,
                                               ![t].log = Append(@, LogPush(p, r))]
                         /\ pc' = pc
                         /\ aborted' = aborted
                    ELSE /\ loc' = [loc EXCEPT ![t].log = Append(@, LogPush(p, r))]
                         /\ pc' = [pc EXCEPT ![t] =
                               IF debug THEN "assert_failed" ELSE "batch_dealloc"]
                         /\ aborted' = debug
       ELSE /\ loc' = [loc EXCEPT ![t].b = BatchResult(loc[t].batch)]
            /\ pc' = [pc EXCEPT ![t] = "ret"]
            /\ UNCHANGED <<root, aborted>>
  /\ rt' = Track(t)
  /\ UNCHANGED <<stats, config, mem, held, destroyed>>

BatchDeallocate(t) ==
  /\ Running(t, "batch_dealloc")
  /\ LET oldBlock == MkBlock(SubBlockPtr(loc[t].batch, loc[t].i), blockSize) IN
       /\ mem' = DelegateDeallocate(oldBlock)
       /\ loc' = [loc EXCEPT ![t].i = @ + 1,
                             ![t].log = Append(@, LogDeallocate(oldBlock))]
  /\ pc' = [pc EXCEPT ![t] = "batch_push"]
  /\ rt' = Track(t)
  /\ UNCHANGED <<stats, config, root, held, destroyed, aborted>>

\* a fallback that gives up instead of asking the delegate for one block
AllocateSingleGivesUp(t) ==
  /\ Running(t, "single")
  /\ loc' = [loc EXCEPT ![t].b = EmptyBlock]
  /\ pc' = [pc EXCEPT ![t] = "ret"]
  /\ rt' = Track(t)
  /\ UNCHANGED <<stats, config, root, mem, held, destroyed, aborted>>

AllocateSingle(t) ==
  /\ Running(t, "single")
  /\ \E blk \in DelegateAllocate(blockSize) :
       /\ mem' = mem \cup Region(blk)
       /\ loc' = [loc EXCEPT ![t].b = blk,
                             ![t].log = Append(@, LogAllocate(blockSize, blk))]
  /\ pc' = [pc EXCEPT ![t] = "ret"]
  /\ rt' = Track(t)
  /\ UNCHANGED <<stats, config, root, held, destroyed, aborted>>

LoopAllocate(t) ==
  /\ Running(t, "loop")
  /\ IF loc[t].i < NumberOfBatchAllocations - 1
       THEN \E blk \in DelegateAllocate(blockSize) :
              /\ mem' = mem \cup Region(blk)
              /\ loc' = [loc EXCEPT ![t].b = blk,
                                    ![t].log = Append(@, LogAllocate(blockSize, blk))]
              /\ pc' = [pc EXCEPT ![t] = "loop_push"]
       ELSE /\ pc' = [pc EXCEPT ![t] = "final"]
            /\ UNCHANGED <<mem, loc>>
  /\ rt' = Track(t)
  /\ UNCHANGED <<stats, config, root, held, destroyed, aborted>>

\* a loop that drops the block the full pool refused and allocates once more
LoopPushGoesOn(t) ==
  /\ Running(t, "loop_push")
  /\ LET p == loc[t].b.ptr
         r == StackPush(root, p)
     IN /\ root' = r.s
        /\ loc' = [loc EXCEPT ![t].i = @ + 1,
                              ![t].b = EmptyBlock,
                              ![t].log = Append(@, LogPush(p, r))]
        /\ pc' = [pc EXCEPT ![t] = IF r.ok THEN "loop" ELSE "final"]
  /\ rt' = Track(t)
  /\ UNCHANGED <<stats, config, mem, held, destroyed, aborted>>

LoopPush(t) ==
  /\ Running(t, "loop_push")
  /\ LET p == loc[t].b.ptr
         r == StackPush(root, p)
     IN /\ root' = r.s
        /\ IF r.ok
             THEN /\ loc' = [loc EXCEPT ![t].i = @ + 1,
                                        ![t].b = EmptyBlock,
                                        ![t].log = Append(@, LogPush(p, r))]
                  /\ pc' = [pc EXCEPT ![t] = "loop"]
             ELSE /\ loc' = [loc EXCEPT ![t].log = Append(@, LogPush(p, r))]
                  /\ pc' = [pc EXCEPT ![t] = "ret"]
  /\ rt' = Track(t)
  /\ UNCHANGED <<stats, config, mem, held, destroyed, aborted>>

LoopFinal(t) ==
  /\ Running(t, "final")
  /\ \E blk \in DelegateAllocate(blockSize) :
       /\ mem' = mem \cup Region(blk)
       /\ loc' = [loc EXCEPT ![t].b = blk,
                             ![t].log = Append(@, LogAllocate(blockSize, blk))]
  /\ pc' = [pc EXCEPT ![t] = "ret"]
  /\ rt' = Track(t)
  /\ UNCHANGED <<stats, config, root, held, destroyed, aborted>>

\* the caller receives the result of allocate
AllocateReturn(t) ==
  /\ Running(t, "ret")
  /\ loc[t].op = "allocate"
  /\ held' = [held EXCEPT ![t] = IF BlockBool(loc[t].b) THEN @ \cup {loc[t].b} ELSE @]
  /\ rt' = IF BlockBool(loc[t].b) /\ loc[t].b.ptr # NULL
             THEN [phase |-> 1, by |-> t, ptr |-> loc[t].b.ptr]
             ELSE NoRT
  /\ pc' = [pc EXCEPT ![t] = "idle"]
  /\ loc' = [loc EXCEPT ![t] = NoLocals]
  /\ UNCHANGED <<stats, config, root, mem, destroyed, aborted>>

\* ------------------------------------------------------- deallocate
\* mutant of DeallocateCall: the block is not tested for being empty
DeallocateCallPoolsEmpty(t, b) ==
  /\ CanEnter(t)
  /\ held' = [held EXCEPT ![t] = @ \ {b}]
  /\ loc' = [loc EXCEPT ![t] = [NoLocals EXCEPT !.op = "deallocate", !.b = b, !.arg = b,
                                              !.root0 = Snapshot]]
  /\ pc' = [pc EXCEPT ![t] =
        IF lowerBound <= b.length /\ b.length <= upperBound THEN "dpush" ELSE "ret"]
  /\ rt' = IF rt.phase = 1 /\ rt.by = t /\ rt.ptr = b.ptr
             THEN [rt EXCEPT !.phase = 2] ELSE NoRT
  /\ UNCHANGED <<stats, config, root, mem, destroyed, aborted>>

DeallocateCall(t, b) ==
  /\ CanEnter(t)
  /\ held' = [held EXCEPT ![t] = @ \ {b}]
  /\ loc' = [loc EXCEPT ![t] = [NoLocals EXCEPT !.op = "deallocate", !.b = b, !.arg = b,
                                              !.root0 = Snapshot]]
  /\ pc' = [pc EXCEPT ![t] = IF BlockBool(b) /\ Owns(b) THEN "dpush" ELSE "ret"]
  /\ rt' = IF rt.phase = 1 /\ rt.by = t /\ rt.ptr = b.ptr
             THEN [rt EXCEPT !.phase = 2] ELSE NoRT
  /\ UNCHANGED <<stats, config, root, mem, destroyed, aborted>>

\* mutant of DeallocatePush: the block always goes to the delegate
DeallocateNeverPools(t) ==
  /\ Running(t, "dpush")
  /\ pc' = [pc EXCEPT ![t] = "dforward"]
  /\ rt' = Track(t)
  /\ UNCHANGED <<stats, config, root, mem, loc, held, destroyed, aborted>>

\* mutant of DeallocatePush: after a failed push the block is dropped
DeallocateDropsWhenFull(t) ==
  /\ Running(t, "dpush")
  /\ LET p == loc[t].b.ptr
         r == StackPush(root, p)
     IN /\ root' = r.s
        /\ loc' = [loc EXCEPT ![t].b = EmptyBlock,
                              ![t].log = Append(@, LogPush(p, r))]
        /\ pc' = [pc EXCEPT ![t] = "ret"]
  /\ rt' = Track(t)
  /\ UNCHANGED <<stats, config, mem, held, destroyed, aborted>>

DeallocatePush(t) ==
  /\ Running(t, "dpush")
  /\ LET p == loc[t].b.ptr
         r == StackPush(root, p)
     IN /\ root' = r.s
        /\ IF r.ok
             THEN /\ loc' = [loc EXCEPT ![t].b = EmptyBlock,
                                        ![t].log = Append(@, LogPush(p, r))]
                  /\ pc' = [pc EXCEPT ![t] = "ret"]
             ELSE /\ loc' = [loc EXCEPT ![t].log = Append(@, LogPush(p, r))]
                  /\ pc' = [pc EXCEPT ![t] = "dforward"]
  /\ rt' = Track(t)
  /\ UNCHANGED <<stats, config, mem, held, destroyed, aborted>>

DeallocateForward(t) ==
  /\ Running(t, "dforward")
  /\ mem' = DelegateDeallocate(loc[t].b)
  /\ loc' = [loc EXCEPT ![t].b = EmptyBlock,
                        ![t].log = Append(@, LogDeallocate(loc[t].b))]
  /\ pc' = [pc EXCEPT ![t] = "ret"]
  /\ rt' = Track(t)
  /\ UNCHANGED <<stats, config, root, held, destroyed, aborted>>

\* deallocate returns: the caller keeps a handle that was not reset
DeallocateReturn(t) ==
  /\ Running(t, "ret")
  /\ loc[t].op = "deallocate"
  /\ held' = [held EXCEPT ![t] = IF BlockBool(loc[t].b) THEN @ \cup {loc[t].b} ELSE @]
  /\ rt' = IF rt.phase = 2 /\ rt.by = t THEN [rt EXCEPT !.phase = 3] ELSE NoRT
  /\ pc' = [pc EXCEPT ![t] = "idle"]
  /\ loc' = [loc EXCEPT ![t] = NoLocals]
  /\ UNCHANGED <<stats, config, root, mem, destroyed, aborted>>

\* ------------------------------------------- a block of another origin
\* a caller obtains from the delegate a block this allocator would refuse
ForeignAllocate(t, m) ==
  /\ CanEnter(t)
  /\ Cardinality(held[t]) < MaxHeld
  /\ ~InRange(m)
  /\ \E blk \in DelegateAllocate(m) \ {EmptyBlock} :
       /\ mem' = mem \cup Region(blk)
       /\ held' = [held EXCEPT ![t] = @ \cup {blk}]
  /\ rt' = NoRT
  /\ UNCHANGED <<stats, config, root, pc, loc, destroyed, aborted>>

\* ------------------------------------------------------- destruction
DestroyCall(t) ==
  /\ CanEnter(t)
  /\ \A u \in Threads : pc[u] = "idle"
  /\ destroyed' = TRUE
  /\ loc' = [loc EXCEPT ![t] = [NoLocals EXCEPT !.op = "destroy", !.root0 = root]]
  /\ pc' = [pc EXCEPT ![t] = "dtor_pop"]
  /\ rt' = NoRT
  /\ UNCHANGED <<stats, config, root, mem, held, aborted>>

DestroyPop(t) ==
  /\ Running(t, "dtor_pop")
  /\ LET r == StackPop(root) IN
       /\ root' = r.s
       /\ IF r.ok
            THEN /\ loc' = [loc EXCEPT ![t].b = DrainedBlock(r.val),
                                       ![t].log = Append(@, LogPop(r))]
                 /\ pc' = [pc EXCEPT ![t] = "dtor_dealloc"]
            ELSE /\ loc' = [loc EXCEPT ![t].log = Append(@, LogPop(r))]
                 /\ pc' = [pc EXCEPT ![t] = "destroyed"]
  /\ UNCHANGED <<stats, config, mem, held, rt, destroyed, aborted>>

DestroyDeallocate(t) ==
  /\ Running(t, "dtor_dealloc")
  /\ mem' = DelegateDeallocate(loc[t].b)
  /\ loc' = [loc EXCEPT ![t].b = EmptyBlock,
                        ![t].log = Append(@, LogDeallocate(loc[t].b))]
  /\ pc' = [pc EXCEPT ![t] = "dtor_pop"]
  /\ UNCHANGED <<stats, config, root, held, rt, destroyed, aborted>>

\* -------------------------------------------------------------- Next
Next ==
  \E t \in Threads :
    \/ \E n \in Sizes : AllocateCall(t, n)
    \/ AllocatePop(t)
    \/ AllocateBatch(t)
    \/ BatchPush(t)
    \/ BatchDeallocate(t)
    \/ AllocateSingle(t)
    \/ LoopAllocate(t)
    \/ LoopPush(t)
    \/ LoopFinal(t)
    \/ AllocateReturn(t)
    \/ \E b \in held[t] \cup {EmptyBlock} : DeallocateCall(t, b)
    \/ DeallocatePush(t)
    \/ DeallocateForward(t)
    \/ DeallocateReturn(t)
    \/ \E m \in Sizes : ForeignAllocate(t, m)
    \/ DestroyCall(t)
    \/ DestroyPop(t)
    \/ DestroyDeallocate(t)

Spec == Init /\ [][Next]_vars

SpecShared == InitShared /\ [][Next]_vars

\* the destructor runs on its caller's thread and nothing suspends it
SpecFair ==
  Spec /\ \A t \in Threads : WF_vars(DestroyPop(t) \/ DestroyDeallocate(t))

\* ------------------------------------------------------ setMinMax
\* mutant of SetMinMax: the bounds are assigned without a look at them
SetMinMaxUnchecked(t, minSize, maxSize) ==
  /\ CanEnter(t)
  /\ lowerBound' = minSize
  /\ upperBound' = maxSize
  /\ loc' = [loc EXCEPT ![t] = NoLocals]
  /\ rt' = NoRT
  /\ UNCHANGED <<stats, Shared, supports_truncated_deallocation, debug, PoolSize,
                 NumberOfBatchAllocations, root, mem, pc, held, destroyed, aborted>>

\* setMinMax(minSize, maxSize): the two BOOST_ASSERT_MSG exist in a debug
\* build only; the assignments follow unconditionally
SetMinMax(t, minSize, maxSize) ==
  /\ CanEnter(t)
  /\ IF debug /\ (lowerBound # DynasticUndefined \/ upperBound # DynasticUndefined)
       THEN /\ aborted' = TRUE
            /\ pc' = [pc EXCEPT ![t] = "assert_failed"]
            /\ loc' = [loc EXCEPT ![t] = [NoLocals EXCEPT !.op = "setMinMax"]]
            /\ UNCHANGED <<lowerBound, upperBound>>
       ELSE /\ lowerBound' = minSize
            /\ upperBound' = maxSize
            /\ loc' = [loc EXCEPT ![t] = NoLocals]
            /\ UNCHANGED <<pc, aborted>>
  /\ rt' = NoRT
  /\ UNCHANGED <<stats, Shared, supports_truncated_deallocation, debug, PoolSize,
                 NumberOfBatchAllocations, root, mem, held, destroyed>>

\* the free list with runtime bounds: its calls, setMinMax among them, and
\* requests of every size_t up to the largest
NextBounds ==
  \/ Next
  \/ \E t \in Threads :
       \/ \E minSize, maxSize \in 0..MaxSize : SetMinMax(t, minSize, maxSize)
       \/ AllocateCall(t, DynasticUndefined)

SpecBounds == InitBounds /\ [][NextBounds]_vars

\* ----------------------------------------------- AllocatorWithStats
\* no free list exists next to the decorator
NoFreeList ==
  /\ Shared = FALSE
  /\ supports_truncated_deallocation = FALSE
  /\ debug = FALSE
  /\ PoolSize = 1
  /\ NumberOfBatchAllocations = 1
  /\ lowerBound = DynasticUndefined
  /\ upperBound = DynasticUndefined
  /\ root = <<>>
  /\ mem = {}
  /\ pc = [t \in Threads |-> "idle"]
  /\ loc = [t \in Threads |-> NoLocals]
  /\ held = [t \in Threads |-> {}]
  /\ rt = NoRT
  /\ destroyed = TRUE
  /\ aborted = FALSE

\* AllocatorWithStats(): every counter 0, the list empty
InitStats ==
  /\ NoFreeList
  /\ constructed = TRUE
  /\ Flags \in Masks
  /\ counters = [k \in Counters |-> 0]
  /\ stats_root = NULL
  /\ info = [p \in Ptrs |-> NoInfo]
  /\ blocks = {}
  /\ trace = NoTrace

StatsCanEnter == constructed /\ trace.calls < MaxCalls

\* a sequence without its entries p
Without(seq, p) == SelectSeq(seq, LAMBDA x : x # p)

\* allocate(n)
StatsAllocate(n) ==
  /\ StatsCanEnter
  /\ \E result \in StatsDelegateAllocate(n) :
       LET c1 == Up("numAllocate", counters)
           c2 == UpOK("numAllocateOK", c1, n > 0 /\ BlockBool(result))
           c3 == Add("bytesAllocated", c2, result.length)
           c4 == updateHighTide(c3)
           linked == IF BlockBool(result) /\ has_per_allocation_state
                       THEN Link(stats_root, info, result.ptr, n)
                       ELSE [root |-> stats_root, info |-> info]
       IN /\ counters' = c4
          /\ stats_root' = linked.root
          /\ info' = linked.info
          /\ blocks' = IF BlockBool(result) THEN blocks \cup {result} ELSE blocks
          /\ trace' = Traced("allocate", n, EmptyBlock, result, BlockBool(result), c4,
                             IF BlockBool(result)
                               THEN <<result.ptr>> \o trace.order ELSE trace.order)
  /\ UNCHANGED <<constructed, Flags, freelist>>

\* deallocate(b)
StatsDeallocate(b) ==
  /\ StatsCanEnter
  /\ LET c1 == Up("numDeallocate", counters)
         c2 == Add("bytesDeallocated", c1, b.length)
         unlinked == IF BlockBool(b) /\ has_per_allocation_state
                       THEN Unlink(stats_root, info, b.ptr)
                       ELSE [root |-> stats_root, info |-> info]
     IN /\ counters' = c2
        /\ stats_root' = unlinked.root
        /\ info' = unlinked.info
        /\ blocks' = blocks \ {b}
        /\ trace' = Traced("deallocate", 0, b, EmptyBlock, TRUE, c2,
                           Without(trace.order, b.ptr))
  /\ UNCHANGED <<constructed, Flags, freelist>>

\* reallocate(b, n); a block that moves takes the record in front of it along
StatsReallocate(b, n) ==
  /\ StatsCanEnter
  /\ \E r \in StatsDelegateReallocate(b, n) :
       /\ counters' = ReallocateResult(counters, b, r)
       /\ blocks' = (blocks \ {b}) \cup (IF BlockBool(r.b) THEN {r.b} ELSE {})
       /\ info' = IF has_per_allocation_state /\ BlockBool(b) /\ BlockBool(r.b)
                     /\ r.b.ptr # b.ptr
                    THEN [info EXCEPT ![r.b.ptr] = info[b.ptr]]
                    ELSE info
       /\ trace' = Traced("reallocate", n, b, r.b, r.ok,
                          ReallocateResult(counters, b, r),
                          IF ~BlockBool(r.b) THEN Without(trace.order, b.ptr)
                          ELSE IF ~BlockBool(b) THEN <<r.b.ptr>> \o trace.order
                          ELSE [k \in 1..Len(trace.order) |->
                                  IF trace.order[k] = b.ptr THEN r.b.ptr
                                  ELSE trace.order[k]])
  /\ UNCHANGED <<constructed, Flags, stats_root, freelist>>

\* owns(b)
StatsOwns(b) ==
  /\ StatsCanEnter
  /\ \E result \in BOOLEAN :
       /\ counters' = Up("numOwns", counters)
       /\ trace' = Traced("owns", 0, b, b, result, Up("numOwns", counters), trace.order)
  /\ UNCHANGED <<constructed, Flags, stats_root, info, blocks, freelist>>

\* expand(b, delta)
StatsExpand(b, delta) ==
  /\ StatsCanEnter
  /\ \E r \in StatsDelegateExpand(b, delta) :
       LET oldLength == b.length
           c1 == Up("numExpand", counters)
           c2 == IF r.ok
                   THEN updateHighTide(
                          Add("bytesAllocated",
                              Add("bytesExpanded", Up("numExpandOK", c1),
                                  r.b.length - oldLength),
                              r.b.length - oldLength))
                   ELSE c1
       IN /\ counters' = c2
          /\ blocks' = IF BlockBool(b) THEN (blocks \ {b}) \cup {r.b} ELSE blocks
          /\ trace' = Traced("expand", delta, b, r.b, r.ok, c2, trace.order)
  /\ UNCHANGED <<constructed, Flags, stats_root, info, freelist>>

NextStats ==
  \/ \E n \in 0..MaxRequest : StatsAllocate(n)
  \/ \E b \in blocks \cup {EmptyBlock} : StatsDeallocate(b)
  \/ \E b \in blocks \cup {EmptyBlock} : \E n \in 0..MaxRequest : StatsReallocate(b, n)
  \/ \E b \in blocks \cup {EmptyBlock} : StatsOwns(b)
  \/ \E b \in blocks \cup {EmptyBlock} : \E delta \in 0..MaxRequest : StatsExpand(b, delta)

SpecStats == InitStats /\ [][NextStats]_vars

\* either allocator, as its caller built it
SpecEither == (Init \/ InitStats) /\ [][Next \/ NextStats]_vars

\* ------------------------------ AllocatorWithStats under two threads
\* The decorator has no lock and no atomic member: a thread's read of a
\* member and its write of it are two steps, and other threads run in
\* between unless the caller serializes the calls.

\* op, n: the call; b: the block in the thread's hands; step: the place in
\* the plan of counter updates; reg: what the thread has read
StatsLocals == [op |-> "none", n |-> 0, b |-> EmptyBlock, step |-> 0, reg |-> 0]

\* the every-thread rest of the state the calls of the decorator leave alone
idleFreeList == <<config, root, mem, held, rt, destroyed, aborted>>

\* AllocatorWithStats(), with threads about to call it
InitStatsThreads ==
  /\ Shared = FALSE
  /\ supports_truncated_deallocation = FALSE
  /\ debug = FALSE
  /\ PoolSize = 1
  /\ NumberOfBatchAllocations = 1
  /\ lowerBound = DynasticUndefined
  /\ upperBound = DynasticUndefined
  /\ root = <<>>
  /\ mem = {}
  /\ held = [t \in Threads |-> {}]
  /\ rt = NoRT
  /\ destroyed = TRUE
  /\ aborted = FALSE
  /\ pc = [t \in Threads |-> "idle"]
  /\ loc = [t \in Threads |-> StatsLocals]
  /\ constructed = TRUE
  /\ Flags \in {{"numAllocate"}, {"callerFile"},
                {"numAllocate", "numDeallocate", "callerFile"}}
  /\ counters = [k \in Counters |-> 0]
  /\ stats_root = NULL
  /\ info = [p \in Ptrs |-> NoInfo]
  /\ blocks = {}
  /\ trace = NoTrace

\* the counter updates of a call in the order of the code: the counter, the
\* run-time condition of the update, and the amount added
Plan(l) ==
  IF l.op = "allocate"
    THEN << [k |-> "numAllocate", on |-> TRUE, by |-> 1],
            [k |-> "numAllocateOK", on |-> l.n > 0 /\ BlockBool(l.b), by |-> 1],
            [k |-> "bytesAllocated", on |-> TRUE, by |-> l.b.length],
            [k |-> "bytesHighTide", on |-> TRUE, by |-> 0] >>
    ELSE << [k |-> "numDeallocate", on |-> TRUE, by |-> 1],
            [k |-> "bytesDeallocated", on |-> TRUE, by |-> l.b.length] >>

\* the first update from place j on that touches its counter
NextAccess(l, j) ==
  LET S == { i \in j..Len(Plan(l)) : Plan(l)[i].k \in Flags /\ Plan(l)[i].on }
  IN IF S = {} THEN Len(Plan(l)) + 1 ELSE CHOOSE i \in S : \A x \in S : i <= x

\* where a call with locals l goes on when its next counter update is at j
Position(l, j) ==
  IF j <= Len(Plan(l)) THEN "count_read"
  ELSE IF BlockBool(l.b) /\ has_per_allocation_state
         THEN (IF l.op = "allocate" THEN "link_read" ELSE "unlink_previous")
         ELSE (IF l.op = "allocate" THEN "stats_ret" ELSE "release")

\* the places no caller and no call in progress has a block at
ThreadFreePtrs ==
  Ptrs \ ({ b.ptr : b \in blocks } \cup { loc[u].b.ptr : u \in Threads })

\* a call may start; locked: the caller holds a mutex around every call
ThreadCanEnter(t, locked) ==
  /\ constructed
  /\ pc[t] = "idle"
  /\ trace.calls + Cardinality({ u \in Threads : pc[u] # "idle" }) < MaxCalls
  /\ locked => \A u \in Threads : pc[u] = "idle"

\* allocate(n), line 336: the delegate answers
ThreadAllocateCall(t, n, locked) ==
  /\ ThreadCanEnter(t, locked)
  /\ \E result \in
        {EmptyBlock} \cup
        { MkBlock(p, n) : p \in { x \in ThreadFreePtrs :
                                   n > 0 /\ \A y \in ThreadFreePtrs : x <= y } } :
       LET l == [StatsLocals EXCEPT !.op = "allocate", !.n = n, !.b = result]
       IN /\ loc' = [loc EXCEPT ![t] = [l EXCEPT !.step = NextAccess(l, 1)]]
          /\ pc' = [pc EXCEPT ![t] = Position(l, NextAccess(l, 1))]
  /\ UNCHANGED <<stats, idleFreeList>>

\* deallocate(b), lines 368-369
ThreadDeallocateCall(t, b, locked) ==
  /\ ThreadCanEnter(t, locked)
  /\ LET l == [StatsLocals EXCEPT !.op = "deallocate", !.b = b]
     IN /\ loc' = [loc EXCEPT ![t] = [l EXCEPT !.step = NextAccess(l, 1)]]
        /\ pc' = [pc EXCEPT ![t] = Position(l, NextAccess(l, 1))]
  /\ blocks' = blocks \ {b}
  /\ UNCHANGED <<constructed, Flags, counters, stats_root, info, trace, idleFreeList>>

\* value++ or value += delta, its read; updateHighTide, its line 252
CounterRead(t) ==
  /\ pc[t] = "count_read"
  /\ LET k == Plan(loc[t])[loc[t].step].k
     IN loc' = [loc EXCEPT ![t].reg =
                  IF k = "bytesHighTide"
                    THEN Wrap(counters["bytesAllocated"] - counters["bytesDeallocated"])
                    ELSE counters[k]]
  /\ pc' = [pc EXCEPT ![t] = "count_write"]
  /\ UNCHANGED <<stats, idleFreeList>>

\* value++ or value += delta, its write; updateHighTide, its lines 253-255
CounterWrite(t) ==
  /\ pc[t] = "count_write"
  /\ LET u == Plan(loc[t])[loc[t].step]
     IN counters' =
          IF u.k = "bytesHighTide"
            THEN IF counters[u.k] < loc[t].reg
                   THEN [counters EXCEPT ![u.k] = loc[t].reg] ELSE counters
            ELSE [counters EXCEPT ![u.k] = Wrap(loc[t].reg + u.by)]
  /\ loc' = [loc EXCEPT ![t].step = NextAccess(loc[t], loc[t].step + 1)]
  /\ pc' = [pc EXCEPT ![t] = Position(loc[t], NextAccess(loc[t], loc[t].step + 1))]
  /\ UNCHANGED <<constructed, Flags, stats_root, info, blocks, trace, idleFreeList>>

\* allocate, lines 343-348: the fields of the new record, and `if (_root)`
LinkRead(t) ==
  /\ pc[t] = "link_read"
  /\ info' = [info EXCEPT ![loc[t].b.ptr].callerSize = Set("callerSize", @, loc[t].n)]
  /\ loc' = [loc EXCEPT ![t].reg = stats_root]
  /\ pc' = [pc EXCEPT ![t] = "link_write"]
  /\ UNCHANGED <<constructed, Flags, counters, stats_root, blocks, trace, idleFreeList>>

\* allocate, lines 349-351 or 355-356
LinkWrite(t) ==
  /\ pc[t] = "link_write"
  /\ LET p == loc[t].b.ptr
         r == loc[t].reg
         i1 == IF r # NULL THEN [info EXCEPT ![r].previous = p] ELSE info
     IN info' = [i1 EXCEPT ![p].next = r, ![p].previous = NULL]
  /\ pc' = [pc EXCEPT ![t] = "link_root"]
  /\ UNCHANGED <<constructed, Flags, counters, stats_root, blocks, trace, loc,
                 idleFreeList>>

\* allocate, line 352 or 357: _root = stat
LinkRoot(t) ==
  /\ pc[t] = "link_root"
  /\ stats_root' = loc[t].b.ptr
  /\ pc' = [pc EXCEPT ![t] = "stats_ret"]
  /\ UNCHANGED <<constructed, Flags, counters, info, blocks, trace, loc, idleFreeList>>

\* allocate, line 360: the caller has the block
ThreadAllocateReturn(t) ==
  /\ pc[t] = "stats_ret"
  /\ blocks' = IF BlockBool(loc[t].b) THEN blocks \cup {loc[t].b} ELSE blocks
  /\ trace' = Traced("allocate", loc[t].n, EmptyBlock, loc[t].b, BlockBool(loc[t].b),
                     counters,
                     IF BlockBool(loc[t].b)
                       THEN <<loc[t].b.ptr>> \o trace.order ELSE trace.order)
  /\ pc' = [pc EXCEPT ![t] = "idle"]
  /\ loc' = [loc EXCEPT ![t] = StatsLocals]
  /\ UNCHANGED <<constructed, Flags, counters, stats_root, info, idleFreeList>>

\* deallocate, lines 373-375
UnlinkPrevious(t) ==
  /\ pc[t] = "unlink_previous"
  /\ LET p == loc[t].b.ptr
     IN info' = IF info[p].previous # NULL
                  THEN [info EXCEPT ![info[p].previous].next = info[p].next]
                  ELSE info
  /\ pc' = [pc EXCEPT ![t] = "unlink_next"]
  /\ UNCHANGED <<constructed, Flags, counters, stats_root, blocks, trace, loc,
                 idleFreeList>>

\* deallocate, lines 376-378
UnlinkNext(t) ==
  /\ pc[t] = "unlink_next"
  /\ LET p == loc[t].b.ptr
     IN info' = IF info[p].next # NULL
                  THEN [info EXCEPT ![info[p].next].previous = info[p].previous]
                  ELSE info
  /\ pc' = [pc EXCEPT ![t] = "unlink_root"]
  /\ UNCHANGED <<constructed, Flags, counters, stats_root, blocks, trace, loc,
                 idleFreeList>>

\* deallocate, line 379
UnlinkRoot(t) ==
  /\ pc[t] = "unlink_root"
  /\ stats_root' = IF loc[t].b.ptr = stats_root
                     THEN info[loc[t].b.ptr].previous ELSE stats_root
  /\ pc' = [pc EXCEPT ![t] = "release"]
  /\ UNCHANGED <<constructed, Flags, counters, info, blocks, trace, loc, idleFreeList>>

\* deallocate, line 381: the delegate has the block again
ThreadDeallocateReturn(t) ==
  /\ pc[t] = "release"
  /\ trace' = Traced("deallocate", 0, loc[t].b, EmptyBlock, TRUE, counters,
                     Without(trace.order, loc[t].b.ptr))
  /\ pc' = [pc EXCEPT ![t] = "idle"]
  /\ loc' = [loc EXCEPT ![t] = StatsLocals]
  /\ UNCHANGED <<constructed, Flags, counters, stats_root, info, blocks, idleFreeList>>

\* the steps of a call in progress
ThreadStatsStep(t) ==
  \/ CounterRead(t)
  \/ CounterWrite(t)
  \/ LinkRead(t)
  \/ LinkWrite(t)
  \/ LinkRoot(t)
  \/ ThreadAllocateReturn(t)
  \/ UnlinkPrevious(t)
  \/ UnlinkNext(t)
  \/ UnlinkRoot(t)
  \/ ThreadDeallocateReturn(t)

\* threads that call without mutual exclusion
NextStatsRacing ==
  \E t \in Threads :
    \/ \E n \in 0..MaxRequest : ThreadAllocateCall(t, n, FALSE)
    \/ \E b \in blocks \cup {EmptyBlock} : ThreadDeallocateCall(t, b, FALSE)
    \/ ThreadStatsStep(t)

\* threads whose caller serializes the calls
NextStatsSerialized ==
  \E t \in Threads :
    \/ \E n \in 0..MaxRequest : ThreadAllocateCall(t, n, TRUE)
    \/ \E b \in blocks \cup {EmptyBlock} : ThreadDeallocateCall(t, b, TRUE)
    \/ ThreadStatsStep(t)

SpecStatsRacing == InitStatsThreads /\ [][NextStatsRacing]_vars

SpecStatsSerialized == InitStatsThreads /\ [][NextStatsSerialized]_vars

\* ======================================================== properties
AllocateReturns(t) == pc[t] = "ret" /\ loc[t].op = "allocate"

DeallocateReturns(t) == pc[t] = "ret" /\ loc[t].op = "deallocate"

\* the entries of a call's log that are calls of the delegate's op
DelegateCalls(log, op) == { k \in 1..Len(log) : log[k].op = op }

PoolSet == { root[k] : k \in 1..Len(root) }

\* C1: for every bound pair and every n < lower or n > upper, allocate(n)
\* returns the empty Block, leaves the pool as it found it and calls neither
\* the pool nor the delegate.
C1_OutOfRangeAllocateIsRefused ==
  \A t \in Threads :
    (AllocateReturns(t) /\ (loc[t].n < lowerBound \/ loc[t].n > upperBound))
      => /\ loc[t].b.ptr = NULL /\ loc[t].b.length = 0
         /\ root = loc[t].root0
         /\ loc[t].log = <<>>

\* C1's case: a request above the upper bound returns while the pool holds
\* blocks it could have served
C1_Witness ==
  \E t \in Threads :
    /\ AllocateReturns(t)
    /\ lowerBound <= upperBound /\ loc[t].n > upperBound
    /\ root # <<>>

\* C2: for lower <= n <= upper, every non-empty Block allocate(n) returns has
\* length exactly upper, on every path and whatever n is.
C2_ReturnedLengthIsUpper ==
  \A t \in Threads :
    (AllocateReturns(t) /\ lowerBound <= loc[t].n /\ loc[t].n <= upperBound
       /\ loc[t].b # EmptyBlock)
      => loc[t].b.length = upperBound

\* C2's case: a request smaller than upper is served from the pool
C2_Witness ==
  \E t \in Threads :
    /\ AllocateReturns(t)
    /\ lowerBound <= loc[t].n /\ loc[t].n < upperBound
    /\ loc[t].b.ptr # NULL
    /\ Len(loc[t].log) = 1 /\ loc[t].log[1].op = "pop" /\ loc[t].log[1].ok

\* C3 as stated: with pool capacity >= 1 and any batch size, allocate,
\* deallocate of the block, allocate again returns the same pointer without a
\* delegate allocation.
C3_RoundTripAnyBatch ==
  \A t \in Threads :
    (AllocateReturns(t) /\ rt.phase = 4 /\ rt.by = t /\ PoolSize >= 1)
      => /\ loc[t].b.ptr = rt.ptr
         /\ DelegateCalls(loc[t].log, "allocate") = {}

\* C3 as amended: the same, for a pool capacity of at least the batch size N,
\* so that the first allocate leaves a free slot in the pool.
C3_RoundTripPoolHoldsBatch ==
  \A t \in Threads :
    (AllocateReturns(t) /\ rt.phase = 4 /\ rt.by = t
       /\ PoolSize >= NumberOfBatchAllocations)
      => /\ loc[t].b.ptr = rt.ptr
         /\ DelegateCalls(loc[t].log, "allocate") = {}

\* C3's case: the third call of a round trip returns, the first having
\* refilled the pool with a batch
C3_Witness ==
  \E t \in Threads :
    /\ AllocateReturns(t) /\ rt.phase = 4 /\ rt.by = t
    /\ PoolSize >= NumberOfBatchAllocations
    /\ NumberOfBatchAllocations > 1
    /\ loc[t].b.ptr = rt.ptr
    /\ root # <<>>

\* C4: deallocate of a non-empty block with lower <= length <= upper: with
\* room in the pool the pointer is pushed, the handle reset and the delegate
\* not called; with the pool at capacity the pool stays as it was and the
\* block goes to the delegate's deallocate.  The pool never holds more than
\* PoolSize pointers.
C4_DeallocatePoolsOrForwards ==
  /\ Len(root) <= PoolSize
  /\ \A t \in Threads :
       (DeallocateReturns(t) /\ loc[t].arg.length # 0
          /\ lowerBound <= loc[t].arg.length /\ loc[t].arg.length <= upperBound)
         => IF Len(loc[t].root0) < PoolSize
              THEN /\ root = <<loc[t].arg.ptr>> \o loc[t].root0
                   /\ loc[t].b.ptr = NULL /\ loc[t].b.length = 0
                   /\ DelegateCalls(loc[t].log, "allocate") = {}
                   /\ DelegateCalls(loc[t].log, "deallocate") = {}
              ELSE /\ root = loc[t].root0
                   /\ DelegateCalls(loc[t].log, "allocate") = {}
                   /\ \E k \in 1..Len(loc[t].log) :
                        /\ DelegateCalls(loc[t].log, "deallocate") = {k}
                        /\ loc[t].log[k].ptr = loc[t].arg.ptr
                        /\ loc[t].log[k].n = loc[t].arg.length

\* C4's case: a block comes back while the pool is at capacity
C4_Witness ==
  \E t \in Threads :
    /\ DeallocateReturns(t)
    /\ loc[t].arg.ptr # NULL /\ loc[t].arg.length = upperBound
    /\ Len(loc[t].root0) = PoolSize
    /\ DelegateCalls(loc[t].log, "deallocate") # {}

\* C5: deallocate of a non-empty block whose length is outside [lower, upper]
\* makes exactly one delegate deallocate call, for that block, and leaves the
\* pool unchanged.
C5_ForeignBlockIsForwarded ==
  \A t \in Threads :
    (DeallocateReturns(t) /\ loc[t].arg.length # 0
       /\ (loc[t].arg.length < lowerBound \/ loc[t].arg.length > upperBound))
      => /\ root = loc[t].root0
         /\ \E k \in 1..Len(loc[t].log) :
              /\ DelegateCalls(loc[t].log, "deallocate") = {k}
              /\ loc[t].log[k].ptr = loc[t].arg.ptr
              /\ loc[t].log[k].n = loc[t].arg.length


Deallocations(log) == SelectSeq(log, LAMBDA e : e.op = "deallocate")

\* the drain so far: one delegate deallocate per pointer taken from the pool,
\* in the pool's order, each of length upper; what is left in the pool and
\* what was given back add up to the k pointers the destructor found
DrainInv ==
  \A t \in Threads :
    loc[t].op = "destroy" =>
      LET d == Deallocations(loc[t].log)
          k == Len(loc[t].root0)
      IN /\ DelegateCalls(loc[t].log, "allocate") = {}
         /\ Len(d) <= k
         /\ \A j \in 1..Len(d) : d[j].ptr = loc[t].root0[j] /\ d[j].n = upperBound
         /\ pc[t] = "dtor_pop" => Len(d) + Len(root) = k
         /\ pc[t] = "dtor_dealloc" => Len(d) + Len(root) + 1 = k
         /\ pc[t] = "destroyed" => Len(d) = k /\ root = <<>>

\* C7: destroying an allocator whose pool holds k pointers makes exactly k
\* delegate deallocate calls, one per pooled pointer, each of length upper,
\* and ends with the pool empty; the drain loop terminates.
C7_DestructorDrains ==
  /\ []DrainInv
  /\ \A t \in Threads : (pc[t] = "dtor_pop") ~> (pc[t] = "destroyed")

\* C7's case: a destructor that found two pooled pointers has finished
C7_Witness ==
  \E t \in Threads :
    /\ pc[t] = "destroyed"
    /\ Len(loc[t].root0) = 2
    /\ Len(Deallocations(loc[t].log)) = 2
    /\ lowerBound < upperBound

\* the blocks a caller owns: those it holds and the one allocate returns
Live(t) == held[t] \cup (IF AllocateReturns(t) THEN {loc[t].b} ELSE {})

\* the steps of a call in progress
ThreadStep(t) ==
  \/ AllocatePop(t) \/ AllocateBatch(t) \/ BatchPush(t) \/ BatchDeallocate(t)
  \/ AllocateSingle(t) \/ LoopAllocate(t) \/ LoopPush(t) \/ LoopFinal(t)
  \/ AllocateReturn(t) \/ DeallocatePush(t) \/ DeallocateForward(t)
  \/ DeallocateReturn(t) \/ DestroyPop(t) \/ DestroyDeallocate(t)

\* C8: under every interleaving of allocate and deallocate calls of the
\* threads of the shared configuration: no memory is a live block of two
\* callers, none is handed out while it is in the pool, the pool holds no
\* pointer twice and never more than PoolSize, and a call in progress can
\* always take its next step, whatever the other threads do.
C8_SharedPoolIsSafe ==
  /\ Len(root) <= PoolSize
  /\ \A j, k \in 1..Len(root) : (j # k /\ root[j] # NULL) => root[j] # root[k]
  /\ \A t, u \in Threads : \A b1 \in Live(t), b2 \in Live(u) :
       (t # u \/ b1 # b2) => Region(b1) \cap Region(b2) = {}
  /\ \A t \in Threads : \A b \in Live(t) : \A k \in 1..Len(root) :
       Region(b) \cap Region(MkBlock(root[k], upperBound)) = {}
  /\ \A t \in Threads :
       (~aborted /\ pc[t] \notin {"idle", "destroyed"}) => ENABLED ThreadStep(t)

\* C8's case: one thread is handed a block another thread has just put into
\* the pool, while that thread is inside a call of its own
C8_Witness ==
  \E t, u \in Threads :
    /\ t # u /\ Shared
    /\ AllocateReturns(t) /\ loc[t].b.ptr # NULL
    /\ Len(loc[t].log) = 1 /\ loc[t].log[1].ok
    /\ pc[u] = "batch_push" /\ loc[u].i > 1
    /\ loc[t].b.ptr = SubBlockPtr(loc[u].batch, 1)

\* what a thread has in its hands in the middle of a call
InFlight(t) ==
  IF pc[t] \in {"batch_push", "batch_dealloc", "assert_failed"}
    THEN UNION { Region(MkBlock(loc[t].batch.ptr + j * upperBound, upperBound)) :
                   j \in {0} \cup (loc[t].i)..(NumberOfBatchAllocations - 1) }
    ELSE IF pc[t] \in {"loop_push", "ret", "dpush", "dforward", "dtor_dealloc"}
           THEN Region(loc[t].b)
           ELSE {}

\* every address the delegate has handed out is in a caller's block, in the
\* pool, or in the hands of a call in progress
Accounted ==
  UNION { UNION { Region(b) : b \in held[t] } \cup InFlight(t) : t \in Threads }
    \cup UNION { Region(MkBlock(root[k], upperBound)) : k \in 1..Len(root) }

\* C9: truncated deallocation, a pool with room for a whole batch: a
\* sub-block whose push fails (another thread filled the pool meanwhile) is
\* passed to the delegate's deallocate as a block of length upper, so that
\* every address of every batch is accounted for.
C9_FailedBatchPushIsGivenBack ==
  /\ mem = Accounted
  /\ \A t \in Threads :
       (/\ loc[t].op = "allocate" /\ supports_truncated_deallocation
        /\ NumberOfBatchAllocations - 1 <= PoolSize
        /\ loc[t].log # <<>>
        /\ loc[t].log[Len(loc[t].log)].op = "push"
        /\ ~loc[t].log[Len(loc[t].log)].ok)
         => pc[t] = "batch_dealloc"
  /\ \A t \in Threads : \A k \in 2..Len(loc[t].log) :
       (/\ loc[t].op = "allocate" /\ supports_truncated_deallocation
        /\ loc[t].log[k - 1].op = "push" /\ ~loc[t].log[k - 1].ok)
         => /\ loc[t].log[k].op = "deallocate"
            /\ loc[t].log[k].ptr = loc[t].log[k - 1].ptr
            /\ loc[t].log[k].n = upperBound

\* C10: every Block allocate returns has a null pointer if and only if its
\* length is 0, also after delegate allocations failed; the pool holds no
\* null pointer that allocate would hand out with length upper.
C10_BlockInvariant ==
  /\ \A t \in Threads :
       AllocateReturns(t) => (loc[t].b.ptr = NULL <=> loc[t].b.length = 0)
  /\ upperBound > 0 => NULL \notin PoolSet

\* C11: whenever both runtime bounds are set, by the two-argument
\* constructor or by setMinMax, lower <= upper holds, for every pair of
\* argument values passed.
C11_BoundPairOrdered ==
  (lowerBound # DynasticUndefined /\ upperBound # DynasticUndefined)
    => lowerBound <= upperBound

\* an allocate call that was not serviced: it returns the empty block and
\* has touched neither the pool nor the delegate
NotServiced(t) ==
  /\ pc[t] \in {"ret", "assert_failed"}
  /\ loc[t].log = <<>>
  /\ loc[t].b.ptr = NULL /\ loc[t].b.length = 0

\* C12 as stated: once both bounds hold defined values no later step, a
\* setMinMax included, changes them, so that min_size() and max_size() stay
\* what they were; and allocate is never serviced while a bound is unset.
C12_BoundsAreSetOnce ==
  /\ [][(lowerBound # DynasticUndefined /\ upperBound # DynasticUndefined)
          => (lowerBound' = lowerBound /\ upperBound' = upperBound)]_vars
  /\ [](\A t \in Threads :
          (loc[t].op = "allocate"
             /\ (lowerBound = DynasticUndefined \/ upperBound = DynasticUndefined))
            => NotServiced(t))

\* C12 as amended: the same for a debug build, where the precondition checks
\* exist: a setMinMax after the bounds were set stops at the assertion and
\* leaves them, and an allocate with a bound unset stops at the assertion
\* before it touches the pool or the delegate.
C12_BoundsAreSetOnceInDebug ==
  /\ [][(debug /\ lowerBound # DynasticUndefined /\ upperBound # DynasticUndefined)
          => (lowerBound' = lowerBound /\ upperBound' = upperBound)]_vars
  /\ [](\A t \in Threads :
          (debug /\ loc[t].op = "allocate"
             /\ (lowerBound = DynasticUndefined \/ upperBound = DynasticUndefined))
            => (pc[t] = "assert_failed" /\ NotServiced(t)))

\* C12's case: a debug build whose free list is in use, blocks in its pool,
\* has stopped a setMinMax at the assertion
C12_Witness ==
  \E t \in Threads :
    /\ debug /\ aborted
    /\ pc[t] = "assert_failed" /\ loc[t].op = "setMinMax"
    /\ lowerBound # DynasticUndefined /\ upperBound # DynasticUndefined
    /\ root # <<>>

\* C13: for every flag mask and every sequence of allocate, deallocate,
\* reallocate, owns and expand calls, each counter whose flag bit is not set
\* in the mask still has its initial value 0.
C13_UnsetCountersStayZero ==
  \A k \in Counters : k \notin Flags => counters[k] = 0

\* C13's case: four different operations were called on an instance that
\* counts bytes only; bytes were counted, calls were not
C13_Witness ==
  /\ Flags = bytesAll
  /\ Cardinality(trace.ops) = 4
  /\ counters["bytesAllocated"] > 0
  /\ counters["bytesDeallocated"] > 0
  /\ counters["numAllocate"] = 0

\* C14: with numAllocate, numAllocateOK and bytesAllocated active, after m
\* allocate calls of any sizes and no other call, numAllocate = m,
\* bytesAllocated = the sum of the lengths of the returned blocks, and
\* numAllocateOK = the number of calls with n > 0 that returned a non-empty
\* block.
C14_AllocateCounters ==
  ({"numAllocate", "numAllocateOK", "bytesAllocated"} \subseteq Flags
     /\ trace.ops \subseteq {"allocate"})
    => /\ counters["numAllocate"] = trace.calls
       /\ counters["bytesAllocated"] = trace.returnedBytes
       /\ counters["numAllocateOK"] = trace.grantedNonZero

\* C14's case: four allocate calls, two of them granted (1 and 2 bytes), the
\* last one a request of n > 0 that failed in the delegate
C14_Witness ==
  /\ Flags = {"numAllocate", "numAllocateOK", "bytesAllocated"}
  /\ trace.ops = {"allocate"} /\ trace.calls = 4
  /\ trace.grantedNonZero = 2 /\ trace.returnedBytes = 3
  /\ trace.last.n > 0 /\ ~trace.last.ok

\* C15: with bytesAllocated, bytesDeallocated and bytesHighTide active, after
\* any sequence of allocate, deallocate, reallocate and expand calls,
\* bytesHighTide equals the maximum of bytesAllocated - bytesDeallocated over
\* all states reached so far.
C15_HighTideIsPeak ==
  {"bytesAllocated", "bytesDeallocated", "bytesHighTide"} \subseteq Flags
    => counters["bytesHighTide"] = trace.peak

\* C15's case: allocate(2), allocate(2), deallocate(first), allocate(1): the
\* mark is 4, above the 3 bytes allocated now
C15_Witness ==
  /\ Flags = {"bytesAllocated", "bytesDeallocated", "bytesHighTide"}
  /\ trace.calls = 4 /\ trace.ops = {"allocate", "deallocate"}
  /\ trace.last.op = "allocate" /\ trace.last.after.length = 1
  /\ counters["bytesAllocated"] - counters["bytesDeallocated"] = 3
  /\ counters["bytesHighTide"] = 4

\* C16: whenever at least one of callerSize, callerFile, callerFunction,
\* callerLine, callerTime is set, every successful allocate links a metadata
\* node; with only callerSize enabled, after allocate and deallocate calls the
\* list holds exactly the nodes of the live blocks, each with the requested
\* size in its size field.
C16_CaptureFlagLinksNode ==
  /\ (Flags \cap {"callerSize", "callerFile", "callerFunction", "callerLine",
                  "callerTime"} # {}
        /\ trace.last.op = "allocate" /\ trace.last.after.length # 0)
       => stats_root = trace.last.after.ptr
  /\ (Flags = {"callerSize"} /\ trace.ops \subseteq {"allocate", "deallocate"})
       => /\ { allocations[k] : k \in 1..Len(allocations) } = { b.ptr : b \in blocks }
          /\ \A b \in blocks : info[b.ptr].callerSize = b.length

\* C17: with per-allocation capture active, after any sequence of successful
\* allocate calls and deallocate calls of live blocks in any order, following
\* next from the head visits exactly the nodes of the live blocks, newest
\* first; the head's back-link is none and x.next.previous = x for every
\* visited x with a successor.
C17_ListIntegrity ==
  (Flags \cap {"callerTime", "callerFile", "callerLine"} # {}
     /\ trace.ops \subseteq {"allocate", "deallocate"})
    => /\ allocations = trace.order
       /\ stats_root # NULL => info[stats_root].previous = NULL
       /\ \A k \in 1..Len(allocations) :
            info[allocations[k]].next # NULL
              => info[info[allocations[k]].next].previous = allocations[k]

\* C18: when the delegate's reallocate fails, reallocate(b, n) returns false,
\* leaves b as it was, and changes no counter other than numReallocate (by 1
\* when its flag is set); bytesHighTide and the metadata list are unchanged.
C18_FailedReallocateChangesNothing ==
  [][(trace'.calls = trace.calls + 1 /\ trace'.last.op = "reallocate"
        /\ ~trace'.last.ok)
      => /\ trace'.last.after = trace'.last.before
         /\ blocks' = blocks
         /\ counters' = [counters EXCEPT !["numReallocate"] =
                           IF "numReallocate" \in Flags THEN @ + 1 ELSE @]
         /\ stats_root' = stats_root
         /\ info' = info]_vars

\* C18's case: with every flag set, the only call so far that was a
\* reallocate was refused by the delegate, for a live block with a record in
\* the list and a new size
C18_Witness ==
  /\ Flags = all
  /\ trace.last.op = "reallocate" /\ ~trace.last.ok
  /\ trace.last.before.length # 0 /\ trace.last.n # trace.last.before.length
  /\ stats_root = trace.last.before.ptr
  /\ counters["numReallocate"] = 1 /\ counters["numReallocateOK"] = 0

EmptyDeallocateLeavesPool ==
  \A t \in Threads :
    (DeallocateReturns(t) /\ loc[t].arg.ptr = NULL /\ loc[t].arg.length = 0)
      => root = loc[t].root0 /\ loc[t].log = <<>>

\* C20 as stated: deallocating an empty Block is a no-op on either
\* allocator: on the free list the pool is unchanged and the delegate not
\* called; on the decorator no counter and no link of the metadata list
\* changes, for every flag mask.
C20_EmptyDeallocateIsNoOp ==
  /\ []EmptyDeallocateLeavesPool
  /\ [][(trace'.calls = trace.calls + 1 /\ trace'.last.op = "deallocate"
           /\ trace'.last.before.ptr = NULL /\ trace'.last.before.length = 0)
          => /\ counters' = counters
             /\ stats_root' = stats_root /\ info' = info]_vars

\* C20 as amended: the same, except that the decorator counts the call:
\* numDeallocate goes up by one when its flag is set, and nothing else
\* changes.
C20_EmptyDeallocateOnlyCounts ==
  /\ []EmptyDeallocateLeavesPool
  /\ [][(trace'.calls = trace.calls + 1 /\ trace'.last.op = "deallocate"
           /\ trace'.last.before.ptr = NULL /\ trace'.last.before.length = 0)
          => /\ counters' = [counters EXCEPT !["numDeallocate"] =
                               IF "numDeallocate" \in Flags THEN @ + 1 ELSE @]
             /\ stats_root' = stats_root /\ info' = info
             /\ blocks' = blocks]_vars

\* C20's case: on a decorator with every flag set and two records in its
\* list, the empty block was deallocated: the call was counted, no byte was
C20_Witness ==
  /\ Flags = all
  /\ trace.last.op = "deallocate"
  /\ trace.last.before.ptr = NULL /\ trace.last.before.length = 0
  /\ counters["numDeallocate"] = 1 /\ counters["bytesDeallocated"] = 0
  /\ Len(allocations) = 2

\* ------------------------------------------------------------ C21
\* no call of the decorator is in progress
Quiescent == \A t \in Threads : pc[t] = "idle"

\* numAllocate is below the number of the allocate calls that have returned
LostUpdate ==
  /\ "numAllocate" \in Flags
  /\ trace.ops \subseteq {"allocate"}
  /\ counters["numAllocate"] < trace.calls

\* the records reached from _root are not exactly those of the live blocks
ListMismatch ==
  /\ has_per_allocation_state
  /\ { allocations[k] : k \in 1..Len(allocations) } # { b.ptr : b \in blocks }

\* C21: the decorator has no synchronization. When two threads run allocate
\* (or allocate and deallocate) on one instance without a mutex, a state is
\* reachable, with no call in progress, in which numAllocate is below the
\* number of completed allocate calls or the metadata list does not hold
\* exactly the records of the live blocks; when the caller serializes the
\* calls, no such state is reachable. The formula is the second half, read
\* under the serialized specification.
C21_SerializedCallsStayConsistent ==
  Quiescent => ~LostUpdate /\ ~ListMismatch

\* ------------------------------------------------------------ C22
\* C22: allocate(0) returns the empty block on the free list for every
\* bound pair, a lower bound of 0 included.
C22_AllocateZeroIsEmpty ==
  \A t \in Threads :
    (AllocateReturns(t) /\ loc[t].n = 0) => loc[t].b = EmptyBlock

\* ------------------------------------------------------------ C23
\* a truncated allocate found the pool empty and its batch allocation failed
BatchFailed(t) ==
  /\ supports_truncated_deallocation
  /\ Len(loc[t].log) >= 2
  /\ loc[t].log[1].op = "pop" /\ ~loc[t].log[1].ok
  /\ loc[t].log[2].op = "allocate" /\ ~loc[t].log[2].ok

\* C23: in truncated mode, when the pool is empty and the delegate's batch
\* allocation of upper * N bytes fails, nothing is pushed, exactly one
\* further delegate allocation of size upper is made and its result is
\* returned; a truncated allocate makes at most two delegate allocations.
C23_FailedBatchFallsBackOnce ==
  \A t \in Threads :
    (AllocateReturns(t) /\ supports_truncated_deallocation)
      => /\ Cardinality(DelegateCalls(loc[t].log, "allocate")) <= 2
         /\ BatchFailed(t)
              => /\ loc[t].log[2].n = upperBound * NumberOfBatchAllocations
                 /\ Len(loc[t].log) = 3
                 /\ loc[t].log[3].op = "allocate"
                 /\ loc[t].log[3].n = upperBound
                 /\ loc[t].b.ptr = loc[t].log[3].ptr
                 /\ loc[t].b.length = IF loc[t].log[3].ok THEN upperBound ELSE 0
                 /\ root = <<>>

\* C23's case: the batch of several blocks failed and the single block the
\* fallback asked for was granted and is returned
C23_Witness ==
  \E t \in Threads :
    /\ AllocateReturns(t) /\ BatchFailed(t)
    /\ NumberOfBatchAllocations >= 2
    /\ Len(loc[t].log) = 3 /\ loc[t].log[3].ok
    /\ loc[t].b.length = upperBound /\ upperBound > 0

\* ------------------------------------------------------------ C24
\* a non-truncated allocate found the pool empty
LoopEntered(t) ==
  /\ ~supports_truncated_deallocation
  /\ Len(loc[t].log) >= 1
  /\ loc[t].log[1].op = "pop" /\ ~loc[t].log[1].ok

\* every block the delegate granted during the call is pooled or returned
NoBlockLost(t) ==
  \A k \in DelegateCalls(loc[t].log, "allocate") :
    loc[t].log[k].ok => loc[t].log[k].ptr \in PoolSet \cup {loc[t].b.ptr}

\* C24: without truncated deallocation a pool miss makes individual
\* delegate allocations of size upper and pushes each. When all N-1 pushes
\* succeed, one final allocation is returned: exactly N delegate
\* allocations, and the pool holds N-1 entries. When a push fails, the
\* block just allocated is returned with no further delegate call, and no
\* block is lost.
C24_LoopFillsPoolOrReturnsEarly ==
  \A t \in Threads :
    (AllocateReturns(t) /\ LoopEntered(t))
      => LET log == loc[t].log
             pushes == DelegateCalls(log, "push")
             allocs == DelegateCalls(log, "allocate")
         IN /\ \A k \in allocs : log[k].n = upperBound
            /\ NoBlockLost(t)
            /\ IF \A k \in pushes : log[k].ok
                 THEN /\ Cardinality(pushes) = NumberOfBatchAllocations - 1
                      /\ Cardinality(allocs) = NumberOfBatchAllocations
                      /\ Len(root) = NumberOfBatchAllocations - 1
                      /\ log[Len(log)].op = "allocate"
                      /\ loc[t].b.ptr = log[Len(log)].ptr
                 ELSE /\ log[Len(log)].op = "push" /\ ~log[Len(log)].ok
                      /\ log[Len(log) - 1].op = "allocate"
                      /\ loc[t].b.ptr = log[Len(log) - 1].ptr
                      /\ log[Len(log)].ptr = loc[t].b.ptr
                      /\ Cardinality(allocs) = Cardinality(pushes)
                      /\ Cardinality(allocs) < NumberOfBatchAllocations

\* C24's case: with room for one entry and N = 3 the first push succeeded,
\* the second was refused, and the granted block it was made for is
\* returned
C24_Witness ==
  \E t \in Threads :
    /\ AllocateReturns(t) /\ LoopEntered(t)
    /\ NumberOfBatchAllocations = 3 /\ PoolSize = 1
    /\ Len(loc[t].log) = 5
    /\ loc[t].log[3].op = "push" /\ loc[t].log[3].ok
    /\ loc[t].log[5].op = "push" /\ ~loc[t].log[5].ok
    /\ BlockBool(loc[t].b) /\ loc[t].b.length = upperBound
    /\ Len(root) = 1

\* ------------------------------------------------------------ C25
\* C25: for every flag mask that includes bytesHighTide, the mask with
\* bytesAllocated disabled and bytesDeallocated enabled in particular,
\* bytesHighTide <= bytesAllocated in every reachable state: the unsigned
\* subtraction bytesAllocated - bytesDeallocated never wraps.
C25_HighTideBelowAllocated ==
  "bytesHighTide" \in Flags
    => counters["bytesHighTide"] <= counters["bytesAllocated"]

\* ------------------------------------------------------------ C26
\* C26: with per-allocation capture active, after any sequence of allocate,
\* deallocate and successful reallocate calls, every record reachable from
\* the head is the record of a block that is live at its current address: a
\* moving reallocate or a reallocate to 0 leaves no stale record.
C26_NoStaleRecord ==
  (has_per_allocation_state
     /\ trace.ops \subseteq {"allocate", "deallocate", "reallocate"})
    => \A k \in 1..Len(allocations) : allocations[k] \in { b.ptr : b \in blocks }

====
